---- MODULE Spec2Model ----
(***************************************************************************)
(* Model of src/islands/TodoListView.tsx: the TodoListView component (the  *)
(* displayed list, the mutation buffer, the sync loop, the EventSource     *)
(* subscription) and the TodoItem rows that call saveTodo.                 *)
(*                                                                         *)
(* One action is one task of the single-threaded event loop: a handler or  *)
(* the piece of the async sync loop between two awaits.                    *)
(***************************************************************************)
EXTENDS Integers, Sequences, FiniteSets, TLC

\* ------------------------------------------------------------------ bounds
\* number of record calls (addTodo / saveTodo) in a run of Spec
MaxRecords == 2
\* failed submissions within one drain cycle
MaxFailures == 1
\* error events the platform dispatches on the channel
MaxErrors == 2
\* rows of the initial list in SpecBulk
MaxBulk == 23

\* ------------------------------------------------------- program constants
chunkSize == 10

\* the JS value null of LocalMutation.text; no string of Texts equals it
Null == "<null>"
\* what the user types into the inputs
Texts == {"b"}
\* ids of generateItemId start above the ids the server hands out
GenBase == 100

Range(s) == {s[k] : k \in 1..Len(s)}

Min(a, b) == IF a < b THEN a ELSE b

\* -------------------------------------------------------------- snapshots
\* e.data of a message event: the serialised list, one tuple
\* <<id, text, completed, versionstamp>> per item
Payloads ==
  { <<>>,
    << <<1, "a", FALSE, 1>> >>,
    << <<1, "a", TRUE, 2>>, <<2, "b", FALSE, 1>> >> }

BulkPayload(v) ==
  [k \in 1..MaxBulk |->
     IF k = 1 THEN <<1, "a", (v = 2), v>> ELSE <<k, "a", FALSE, 1>>]

BulkPayloads == {BulkPayload(2)}

\* JSON.parse(e.data): TodoList = { items: TodoListItem[] }
JSONparse(p) ==
  [items |-> [k \in 1..Len(p) |->
     [id |-> p[k][1], text |-> p[k][2], completed |-> p[k][3],
      versionstamp |-> p[k][4]]]]

\* key of a TodoItem child: item.id + ":" + item.versionstamp
Key(item) == <<item.id, item.versionstamp>>

\* a freshly mounted TodoItem: editing = false, busy = false
FreshRow == [editing |-> FALSE, busy |-> FALSE]

\* keyed re-render of data.items.map(...): a child whose key was rendered
\* before keeps its component state, any other child is mounted fresh
Reconcile(oldItems, oldRows, newItems) ==
  [k \in 1..Len(newItems) |->
     IF \E j \in 1..Len(oldItems) : Key(oldItems[j]) = Key(newItems[k])
       THEN oldRows[CHOOSE j \in 1..Len(oldItems) :
                      Key(oldItems[j]) = Key(newItems[k])]
       ELSE FreshRow]

\* ------------------------------------------------------------ the JS Map
\* a Map keeps its keys in insertion order
NewMap == [keys |-> <<>>, vals |-> <<>>]

MapSetMerge(m, k, v) ==
  IF k \in Range(m.keys)
    THEN [keys |-> m.keys,
          vals |-> [m.vals EXCEPT ![k] = [v EXCEPT !.completed = @ \/ m.vals[k].completed]]]
    ELSE [keys |-> Append(m.keys, k), vals |-> (k :> v) @@ m.vals]

\* a set that keeps the value of a present key
MapSetKeepFirst(m, k, v) ==
  IF k \in Range(m.keys)
    THEN m
    ELSE [keys |-> Append(m.keys, k), vals |-> (k :> v) @@ m.vals]

\* Map.prototype.set: replaces the value of a present key in place,
\* appends an absent key
MapSet(m, k, v) ==
  IF k \in Range(m.keys)
    THEN [keys |-> m.keys, vals |-> [m.vals EXCEPT ![k] = v]]
    ELSE [keys |-> Append(m.keys, k), vals |-> (k :> v) @@ m.vals]

\* Array.from(map): the [key, value] pairs in insertion order
ArrayFrom(m) == [k \in 1..Len(m.keys) |-> <<m.keys[k], m.vals[m.keys[k]]>>]

\* a slice that stops one element early
MakeChunkShort(muts, at) ==
  [k \in 1..(Min(at + chunkSize - 1, Len(muts)) - at) |->
     [id |-> muts[at + k][1], text |-> muts[at + k][2].text,
      completed |-> muts[at + k][2].completed, ref |-> muts[at + k][2].ref]]

\* mutations.slice(i, i + chunkSize).map(([id, mut]) => ({id, text, completed}))
\* (i is the 0-based index of the source); ref is the identity of the
\* LocalMutation object the element was built from
MakeChunk(muts, at) ==
  [k \in 1..(Min(at + chunkSize, Len(muts)) - at) |->
     [id |-> muts[at + k][1], text |-> muts[at + k][2].text,
      completed |-> muts[at + k][2].completed, ref |-> muts[at + k][2].ref]]

\* Math.random() is r / RandomDenominator for an r of RandomSamples
RandomDenominator == 1000

RandomSamples == {0, 500, 999}

\* const backoff = 10000 + Math.random() * 5000, in milliseconds
Backoff(r) == 10000 + (r * 5000) \div RandomDenominator

\* the step of the clock that runs the backoff timer, in milliseconds
TickMs == 5000

\* an id source that repeats itself
generateItemIdSame(n) == GenBase + 1

\* generateItemId: a fresh id, n ids were generated before
generateItemId(n) == GenBase + n + 1

VARIABLES
  data,               \* useState(props.initialData)
  rows,               \* component state of the TodoItem of data.items[k]
  dirty,              \* useState(false)
  localMutations,     \* localMutations.current
  hasLocalMutations,  \* useState(false)
  adding,             \* useState(false)
  sources,            \* the EventSource objects created so far
  es,                 \* the variable es of the first effect
  reconnecting,       \* the error handler is waiting for its backoff timer
  backoff,            \* const backoff of the waiting error handler, else 0
  waited,             \* milliseconds since the backoff timer was set
  pc,                 \* the await the sync loop is suspended at
  mutations,          \* const mutations of the current loop iteration
  i,                  \* the for-loop index
  chunk,              \* const chunk of the current for-loop iteration
  requests,           \* the calls of axios.post in the current iteration
  visible,            \* the page is visible
  ids,                \* number of ids generateItemId has produced
  recLog,             \* history: the arguments of every record call
  prevAt,             \* history: Len(recLog) at the drain before the last
  lastAt,             \* history: Len(recLog) at the last drain
  drainedSet,         \* history: refs returned by drains before the last
  overwritten,        \* history: refs replaced in the buffer
  acked,              \* history: refs in a submission that succeeded
  delivered,          \* history: the last message event dispatched
  errors              \* history: number of error events dispatched

vars ==
  <<data, rows, dirty, localMutations, hasLocalMutations, adding, sources, es,
    reconnecting, backoff, waited, pc, mutations, i, chunk, requests, visible, ids, recLog,
    prevAt, lastAt, drainedSet, overwritten, acked, delivered, errors>>

viewVars == <<data, rows, dirty, adding>>
bufferVars == <<localMutations, hasLocalMutations, ids>>
channelVars == <<sources, es, reconnecting, backoff, waited, errors>>
loopVars == <<pc, mutations, i, chunk, requests>>
historyVars == <<recLog, prevAt, lastAt, drainedSet, overwritten, acked>>

\* const busy = hasLocalMutations || dirty
busy == hasLocalMutations \/ dirty

\* ------------------------------------------------------------------- Init
InitWith(initialData) ==
  /\ data = initialData
  /\ rows = [k \in 1..Len(initialData.items) |-> FreshRow]
  /\ dirty = FALSE
  /\ localMutations = NewMap
  /\ hasLocalMutations = FALSE
  /\ adding = FALSE
  /\ sources = <<[readyState |-> "CONNECTING", listeners |-> TRUE]>>
  /\ es = 1
  /\ reconnecting = FALSE
  /\ backoff = 0
  /\ waited = 0
  /\ pc = "pause"
  /\ mutations = <<>>
  /\ i = 0
  /\ chunk = <<>>
  /\ requests = <<>>
  /\ visible = TRUE
  /\ ids = 0
  /\ recLog = <<>>
  /\ prevAt = 0
  /\ lastAt = 0
  /\ drainedSet = {}
  /\ overwritten = {}
  /\ acked = {}
  /\ delivered = [src |-> 0, payload |-> <<>>]
  /\ errors = 0

\* the effects have run: the subscription is connecting and the first loop
\* iteration has drained the empty map and waits for its pause
Init == \E p \in Payloads : InitWith(JSONparse(p))

InitBulk == InitWith(JSONparse(BulkPayload(1)))

\* ---------------------------------------------------------- record calls
\* the object literal { text, completed } of a record call; ref is its identity
NewMutation(text, completed) ==
  [text |-> text, completed |-> completed, ref |-> Len(recLog) + 1]

\* a record that leaves hasLocalMutations as it is
RecordNoFlag(id, text, completed) ==
  /\ localMutations' = MapSet(localMutations, id, NewMutation(text, completed))
  /\ hasLocalMutations' = hasLocalMutations
  /\ recLog' = Append(recLog, [id |-> id, text |-> text, completed |-> completed])
  /\ overwritten' =
       IF id \in Range(localMutations.keys)
         THEN overwritten \cup {localMutations.vals[id].ref}
         ELSE overwritten
  /\ UNCHANGED <<prevAt, lastAt, drainedSet, acked>>

\* localMutations.current.set(id, { text, completed }) and
\* setHasLocalMutations(true), the body shared by addTodo and saveTodo
Record(id, text, completed) ==
  /\ localMutations' = MapSet(localMutations, id, NewMutation(text, completed))
  /\ hasLocalMutations' = TRUE
  /\ recLog' = Append(recLog, [id |-> id, text |-> text, completed |-> completed])
  /\ overwritten' =
       IF id \in Range(localMutations.keys)
         THEN overwritten \cup {localMutations.vals[id].ref}
         ELSE overwritten
  /\ UNCHANGED <<prevAt, lastAt, drainedSet, acked>>

\* an addTodo without setAdding(true)
addTodoNoFlag(value) ==
  /\ ~adding
  /\ IF value = ""
       THEN UNCHANGED <<bufferVars, historyVars, adding>>
       ELSE /\ Record(generateItemId(ids), value, FALSE)
            /\ ids' = ids + 1
            /\ adding' = adding
  /\ UNCHANGED <<data, rows, dirty, channelVars, loopVars, visible, delivered>>

\* addTodo, reached from the add button (disabled = {adding})
addTodo(value) ==
  /\ ~adding
  /\ IF value = ""
       THEN UNCHANGED <<bufferVars, historyVars, adding>>
       ELSE /\ Record(generateItemId(ids), value, FALSE)
            /\ ids' = ids + 1
            /\ adding' = TRUE
  /\ UNCHANGED <<data, rows, dirty, channelVars, loopVars, visible, delivered>>

\* saveTodo(item, text, completed)
saveTodo(item, text, completed) ==
  /\ Record(item.id, text, completed)
  /\ UNCHANGED <<ids, data, dirty, adding, channelVars, loopVars, visible,
                 delivered>>

\* the edit button of row k: setEditing(true)
startEdit(k) ==
  /\ k \in 1..Len(rows)
  /\ ~rows[k].editing /\ ~rows[k].busy
  /\ rows' = [rows EXCEPT ![k].editing = TRUE]
  /\ UNCHANGED <<data, dirty, adding, bufferVars, channelVars, loopVars,
                 visible, historyVars, delivered>>

\* cancelEdit of row k
cancelEdit(k) ==
  /\ k \in 1..Len(rows)
  /\ rows[k].editing /\ ~rows[k].busy
  /\ rows' = [rows EXCEPT ![k].editing = FALSE]
  /\ UNCHANGED <<data, dirty, adding, bufferVars, channelVars, loopVars,
                 visible, historyVars, delivered>>

\* doSave of row k, value is input.current.value
doSave(k, value) ==
  /\ k \in 1..Len(rows)
  /\ rows[k].editing /\ ~rows[k].busy
  /\ rows' = [rows EXCEPT ![k].busy = TRUE]
  /\ saveTodo(data.items[k], value, data.items[k].completed)

\* a doDelete that passes the negated completed value
doDeleteFlips(k, yes) ==
  /\ k \in 1..Len(rows)
  /\ ~rows[k].editing /\ ~rows[k].busy
  /\ IF yes
       THEN /\ rows' = [rows EXCEPT ![k].busy = TRUE]
            /\ saveTodo(data.items[k], Null, ~data.items[k].completed)
       ELSE UNCHANGED vars

\* doDelete of row k, yes is the answer to confirm(...)
doDelete(k, yes) ==
  /\ k \in 1..Len(rows)
  /\ ~rows[k].editing /\ ~rows[k].busy
  /\ IF yes
       THEN /\ rows' = [rows EXCEPT ![k].busy = TRUE]
            /\ saveTodo(data.items[k], Null, data.items[k].completed)
       ELSE UNCHANGED vars

\* a doSaveCompleted without setBusy(true)
doSaveCompletedNoBusy(k) ==
  /\ k \in 1..Len(rows)
  /\ ~rows[k].editing /\ ~rows[k].busy
  /\ rows' = rows
  /\ saveTodo(data.items[k], data.items[k].text, ~data.items[k].completed)

\* doSaveCompleted of row k from the checkbox's onChange; the checkbox shows
\* item.completed, so e.currentTarget.checked is its negation
doSaveCompleted(k) ==
  /\ k \in 1..Len(rows)
  /\ ~rows[k].editing /\ ~rows[k].busy
  /\ rows' = [rows EXCEPT ![k].busy = TRUE]
  /\ saveTodo(data.items[k], data.items[k].text, ~data.items[k].completed)

\* -------------------------------------------------------------- sync loop
\* axios.post(window.location.href, c): one more request in flight
axiosPost(reqs, c) == Append(reqs, [chunk |-> c, status |-> "inflight"])

\* the response of the request in flight
Respond(reqs, status) == [reqs EXCEPT ![Len(reqs)].status = status]

Refs(s) == {s[k][2].ref : k \in 1..Len(s)}

\* a drain that copies the map and leaves it in place
DrainNoSwap ==
  /\ mutations' = ArrayFrom(localMutations)
  /\ localMutations' = localMutations
  /\ hasLocalMutations' = FALSE

\* the drain: Array.from(localMutations.current), then the map is replaced
\* by a new one, with no await in between
Drain ==
  /\ mutations' = ArrayFrom(localMutations)
  /\ localMutations' = NewMap
  /\ hasLocalMutations' = FALSE

\* one loop iteration from its top to its first await
LoopIteration ==
  /\ Drain
  /\ i' = 0
  /\ IF Len(mutations') > 0
       THEN /\ dirty' = TRUE
            /\ chunk' = MakeChunk(mutations', 0)
            /\ requests' = axiosPost(<<>>, chunk')
            /\ pc' = "post"
       ELSE /\ dirty' = dirty
            /\ chunk' = <<>>
            /\ requests' = <<>>
            /\ pc' = "pause"
  /\ prevAt' = lastAt
  /\ lastAt' = Len(recLog)
  /\ drainedSet' = drainedSet \cup Refs(mutations)
  /\ UNCHANGED <<recLog, overwritten, acked>>

\* setTimeout(..., 1000) of the pause fires and calls requestAnimationFrame
PauseTimer ==
  /\ pc = "pause"
  /\ pc' = "raf"
  /\ UNCHANGED <<viewVars, bufferVars, channelVars, mutations, i, chunk,
                 requests, visible, historyVars, delivered>>

\* the animation frame callback resolves the pause; frames are produced only
\* while the page is visible
AnimationFrame ==
  /\ pc = "raf"
  /\ visible
  /\ LoopIteration
  /\ UNCHANGED <<data, rows, adding, ids, channelVars, visible, delivered>>

\* a loop that calls setDirty(false) after the last chunk
PostSuccessClearsDirty ==
  /\ pc = "post"
  /\ acked' = acked \cup {chunk[k].ref : k \in 1..Len(chunk)}
  /\ i' = i + chunkSize
  /\ IF i' < Len(mutations)
       THEN /\ chunk' = MakeChunk(mutations, i')
            /\ requests' = axiosPost(Respond(requests, "ok"), chunk')
            /\ pc' = "post"
            /\ dirty' = dirty
       ELSE /\ chunk' = chunk
            /\ requests' = Respond(requests, "ok")
            /\ pc' = "pause"
            /\ dirty' = FALSE
  /\ UNCHANGED <<data, rows, adding, bufferVars, channelVars, mutations,
                 visible, recLog, prevAt, lastAt, drainedSet, overwritten,
                 delivered>>

\* axios.post resolves: break, i += chunkSize, next chunk or end of the for
PostSuccess ==
  /\ pc = "post"
  /\ acked' = acked \cup {chunk[k].ref : k \in 1..Len(chunk)}
  /\ i' = i + chunkSize
  /\ IF i' < Len(mutations)
       THEN /\ chunk' = MakeChunk(mutations, i')
            /\ requests' = axiosPost(Respond(requests, "ok"), chunk')
            /\ pc' = "post"
       ELSE /\ chunk' = chunk
            /\ requests' = Respond(requests, "ok")
            /\ pc' = "pause"
  /\ UNCHANGED <<viewVars, bufferVars, channelVars, mutations, visible,
                 recLog, prevAt, lastAt, drainedSet, overwritten, delivered>>

\* a catch that leaves the while loop as the try does
PostFailureSkip ==
  /\ pc = "post"
  /\ i' = i + chunkSize
  /\ IF i' < Len(mutations)
       THEN /\ chunk' = MakeChunk(mutations, i')
            /\ requests' = axiosPost(Respond(requests, "failed"), chunk')
            /\ pc' = "post"
       ELSE /\ chunk' = chunk
            /\ requests' = Respond(requests, "failed")
            /\ pc' = "pause"
  /\ UNCHANGED <<viewVars, bufferVars, channelVars, mutations, visible,
                 historyVars, delivered>>

\* axios.post rejects: catch, setTimeout(resolve, 1000)
PostFailure ==
  /\ pc = "post"
  /\ requests' = Respond(requests, "failed")
  /\ pc' = "retryWait"
  /\ UNCHANGED <<viewVars, bufferVars, channelVars, mutations, i, chunk,
                 visible, historyVars, delivered>>

\* a retry timer that abandons the chunk
RetryTimerGiveUp ==
  /\ pc = "retryWait"
  /\ requests' = requests
  /\ pc' = "pause"
  /\ UNCHANGED <<viewVars, bufferVars, channelVars, mutations, i, chunk,
                 visible, historyVars, delivered>>

\* the retry timer fires: the while (true) posts chunk again
RetryTimer ==
  /\ pc = "retryWait"
  /\ requests' = axiosPost(requests, chunk)
  /\ pc' = "post"
  /\ UNCHANGED <<viewVars, bufferVars, channelVars, mutations, i, chunk,
                 visible, historyVars, delivered>>

\* ------------------------------------------------------------ EventSource
\* a listener that replaces the list and leaves the flags
OnMessageKeepFlags(p) ==
  LET newData == JSONparse(p) IN
  /\ data' = newData
  /\ rows' = Reconcile(data.items, rows, newData.items)
  /\ dirty' = dirty
  /\ adding' = adding

\* a listener that appends the items of the message to the list
OnMessageMerge(p) ==
  LET newData == JSONparse(p) IN
  /\ data' = [items |-> data.items \o newData.items]
  /\ rows' = rows \o [k \in 1..Len(newData.items) |-> FreshRow]
  /\ dirty' = FALSE
  /\ adding' = FALSE

\* the message listener
OnMessage(p) ==
  LET newData == JSONparse(p) IN
  /\ data' = newData
  /\ rows' = Reconcile(data.items, rows, newData.items)
  /\ dirty' = FALSE
  /\ adding' = FALSE

\* the platform dispatches a message event with data p on source s
EsMessage(s, p) ==
  /\ s \in 1..Len(sources)
  /\ sources[s].readyState = "OPEN"
  /\ delivered' = [src |-> s, payload |-> p]
  /\ IF sources[s].listeners THEN OnMessage(p) ELSE UNCHANGED viewVars
  /\ UNCHANGED <<bufferVars, channelVars, loopVars, visible, historyVars>>

\* the connection of source s is established
EsOpen(s) ==
  /\ s \in 1..Len(sources)
  /\ sources[s].readyState = "CONNECTING"
  /\ sources' = [sources EXCEPT ![s].readyState = "OPEN"]
  /\ UNCHANGED <<viewVars, bufferVars, es, reconnecting, backoff, waited,
                 errors, loopVars, visible, historyVars, delivered>>

\* the connection of source s is lost or fails.  The platform either
\* re-establishes it by itself (native = "CONNECTING") or gives up
\* (native = "CLOSED") and dispatches an error event; the error listener calls
\* es.close() and sets its backoff timer, r is the value of Math.random()
EsError(s, native, r) ==
  /\ s \in 1..Len(sources)
  /\ sources[s].readyState \in {"CONNECTING", "OPEN"}
  /\ errors' = errors + 1
  /\ LET afterNative == [sources EXCEPT ![s].readyState = native] IN
     IF sources[s].listeners
       THEN /\ sources' = [afterNative EXCEPT ![es].readyState = "CLOSED"]
            /\ reconnecting' = TRUE
            /\ backoff' = Backoff(r)
            /\ waited' = 0
       ELSE /\ sources' = afterNative
            /\ UNCHANGED <<reconnecting, backoff, waited>>
  /\ UNCHANGED <<viewVars, bufferVars, es, loopVars, visible, historyVars,
                 delivered>>

\* time passes while the error handler waits
Tick ==
  /\ reconnecting
  /\ waited < backoff
  /\ waited' = waited + TickMs
  /\ UNCHANGED <<viewVars, bufferVars, sources, es, reconnecting, backoff,
                 errors, loopVars, visible, historyVars, delivered>>

\* the backoff timer fires: es = new EventSource(window.location.href)
BackoffTimer ==
  /\ reconnecting
  /\ waited >= backoff
  /\ backoff' = 0
  /\ waited' = 0
  /\ sources' = Append(sources, [readyState |-> "CONNECTING", listeners |-> FALSE])
  /\ es' = Len(sources) + 1
  /\ reconnecting' = FALSE
  /\ UNCHANGED <<viewVars, bufferVars, errors, loopVars, visible, historyVars,
                 delivered>>

\* the user hides or shows the page
VisibilityChange ==
  /\ visible' = ~visible
  /\ UNCHANGED <<viewVars, bufferVars, channelVars, loopVars, historyVars,
                 delivered>>

\* ------------------------------------------------------------------- Next
CanRecord == Len(recLog) < MaxRecords

Failures == Cardinality({k \in 1..Len(requests) : requests[k].status = "failed"})

Next ==
  \/ \E value \in Texts \cup {""} : CanRecord /\ addTodo(value)
  \/ \E k \in 1..Len(rows) : startEdit(k)
  \/ \E k \in 1..Len(rows) : cancelEdit(k)
  \/ \E k \in 1..Len(rows), value \in Texts : CanRecord /\ doSave(k, value)
  \/ \E k \in 1..Len(rows), yes \in BOOLEAN : CanRecord /\ doDelete(k, yes)
  \/ \E k \in 1..Len(rows) : CanRecord /\ doSaveCompleted(k)
  \/ PauseTimer
  \/ AnimationFrame
  \/ PostSuccess
  \/ Failures < MaxFailures /\ PostFailure
  \/ RetryTimer
  \/ \E s \in 1..Len(sources) : EsOpen(s)
  \/ \E s \in 1..Len(sources), p \in Payloads : EsMessage(s, p)

Spec == Init /\ [][Next]_vars

\* Spec leaves out the channel errors and the hiding of the page.  After the
\* first error no listener is left, so for the view, the buffer and the loop
\* a run with errors is a run of Spec in which messages stop; a hidden page
\* only delays the animation frame, which Spec may delay anyway.
\* SpecChannel has the errors, with one added item to make dirty true;
\* SpecLive has the hiding of the page.
MaxChannelRecords == 1

NextChannel ==
  \/ Len(recLog) < MaxChannelRecords /\ addTodo("b")
  \/ PauseTimer
  \/ AnimationFrame
  \/ PostSuccess
  \/ \E s \in 1..Len(sources) : EsOpen(s)
  \/ \E s \in 1..Len(sources), p \in Payloads : EsMessage(s, p)
  \/ \E s \in 1..Len(sources), native \in {"CONNECTING", "CLOSED"},
        r \in RandomSamples :
       errors < MaxErrors /\ EsError(s, native, r)
  \/ Tick
  \/ BackoffTimer

SpecChannel == Init /\ [][NextChannel]_vars

\* SpecBulk: a list of MaxBulk rows whose checkboxes the user ticks from the
\* top before the loop takes the first edits, so that one drain has up to
\* MaxBulk edits; a snapshot replaces row 1, which can then be ticked again
\* at any time, also while a chunk is retried.
TopDown(k) == (\A j \in 1..(k - 1) : rows[j].busy) /\ (lastAt = 0 \/ k = 1)

NextBulk ==
  \/ \E k \in 1..Len(rows) : TopDown(k) /\ doSaveCompleted(k)
  \/ PauseTimer
  \/ AnimationFrame
  \/ PostSuccess
  \/ Failures < MaxFailures /\ PostFailure
  \/ RetryTimer
  \/ EsOpen(1)
  \/ \E p \in BulkPayloads : EsMessage(1, p)

SpecBulk == InitBulk /\ [][NextBulk]_vars

\* SpecLive: adds and checkbox edits under the scheduling the loop relies
\* on: timers fire, a hidden page is shown again and then gets its animation
\* frame, and the transport answers and does not reject forever.
Show == ~visible /\ VisibilityChange

NextLive ==
  \/ CanRecord /\ addTodo("b")
  \/ \E k \in 1..Len(rows) : CanRecord /\ doSaveCompleted(k)
  \/ PauseTimer
  \/ AnimationFrame
  \/ PostSuccess
  \/ Failures < MaxFailures /\ PostFailure
  \/ RetryTimer
  \/ \E s \in 1..Len(sources) : EsOpen(s)
  \/ \E s \in 1..Len(sources), p \in Payloads : EsMessage(s, p)
  \/ VisibilityChange

SpecLive ==
  /\ Init
  /\ [][NextLive]_vars
  /\ WF_vars(PauseTimer)
  /\ WF_vars(RetryTimer)
  /\ WF_vars(Show)
  /\ SF_vars(AnimationFrame)
  /\ SF_vars(PostSuccess)

\* ================================================================= claims
\* the refs recorded after position lo up to position hi that no later
\* record of the same id in that range replaced
LatestIn(lo, hi) ==
  {r \in (lo + 1)..hi : \A t \in (r + 1)..hi : recLog[t].id # recLog[r].id}

\* the pairs of s carry the arguments of the record calls their refs name
Faithful(s) ==
  \A k \in 1..Len(s) :
    /\ s[k][2].ref \in 1..Len(recLog)
    /\ s[k][1] = recLog[s[k][2].ref].id
    /\ s[k][2].text = recLog[s[k][2].ref].text
    /\ s[k][2].completed = recLog[s[k][2].ref].completed

\* C1: whenever records interleave with drains, the last drain returned
\* exactly the most recent edit of every id recorded between the drain before
\* it and itself, the buffer holds exactly the most recent edit of every id
\* recorded since the last drain (so the next drain returns them), and no
\* edit the last drain returned had been returned by an earlier drain.
C1_NoEditLostOrDuplicated ==
  /\ Refs(mutations) = LatestIn(prevAt, lastAt)
  /\ Cardinality(Refs(mutations)) = Len(mutations)
  /\ Faithful(mutations)
  /\ Refs(ArrayFrom(localMutations)) = LatestIn(lastAt, Len(recLog))
  /\ Refs(mutations) \cap drainedSet = {}

\* an edit recorded while the loop was busy with an earlier drain has been
\* returned by the drain after it
C1_Witness ==
  /\ drainedSet # {}
  /\ prevAt >= 1
  /\ lastAt > prevAt
  /\ Len(mutations) >= 1
  /\ Len(requests) >= 1

\* C2: the buffer has at most one pending edit per id, and the edit it holds
\* for an id has both fields of the most recent record call for that id.
C2_OneEditPerIdOverwritten ==
  LET m == ArrayFrom(localMutations) IN
  /\ \A j, k \in 1..Len(m) : j # k => m[j][1] # m[k][1]
  /\ Faithful(m)
  /\ \A k \in 1..Len(m) :
       \A t \in (m[k][2].ref + 1)..Len(recLog) : recLog[t].id # m[k][1]

\* an edit was recorded for an id whose pending edit differed in both fields
C2_Witness ==
  /\ Len(localMutations.keys) = 1
  /\ Len(recLog) = 2
  /\ overwritten = {1}
  /\ recLog[1].id = recLog[2].id
  /\ recLog[1].text # recLog[2].text
  /\ recLog[1].completed # recLog[2].completed
  /\ localMutations.vals[recLog[2].id].ref = 2

CycleDone == pc \in {"pause", "raf"} /\ Len(mutations) >= 1

AllOk == \A k \in 1..Len(requests) : requests[k].status = "ok"

Ceil(n) == (n + chunkSize - 1) \div chunkSize

\* C3: when a drain of n >= 1 edits has been submitted without a failure,
\* there were ceil(n / chunkSize) submissions, every one but the last of
\* chunkSize edits, the last of the remaining edits, and the chunks in
\* submission order are the drained sequence.
C3_Chunking ==
  (CycleDone /\ AllOk) =>
    LET n == Len(mutations) IN
    /\ Len(requests) = Ceil(n)
    /\ \A k \in 1..(Len(requests) - 1) : Len(requests[k].chunk) = chunkSize
    /\ Len(requests[Len(requests)].chunk) = n - chunkSize * (Ceil(n) - 1)
    /\ \A k \in 1..n :
         LET e == requests[((k - 1) \div chunkSize) + 1].chunk[((k - 1) % chunkSize) + 1] IN
         /\ e.id = mutations[k][1]
         /\ e.text = mutations[k][2].text
         /\ e.completed = mutations[k][2].completed

\* 23 edits went out as chunks of 10, 10 and 3
C3_Witness ==
  /\ CycleDone
  /\ AllOk
  /\ Len(mutations) = 23
  /\ Len(requests) = 3
  /\ Len(requests[1].chunk) = 10
  /\ Len(requests[2].chunk) = 10
  /\ Len(requests[3].chunk) = 3

\* number of requests before request k that succeeded
OkBefore(k) == Cardinality({j \in 1..(k - 1) : requests[j].status = "ok"})

\* request k carries the chunk that starts at position at of the drained
\* sequence
IsChunkAt(k, at) ==
  LET c == requests[k].chunk IN
  /\ Len(c) = Min(chunkSize, Len(mutations) - at)
  /\ \A j \in 1..Len(c) :
       /\ c[j].id = mutations[at + j][1]
       /\ c[j].text = mutations[at + j][2].text
       /\ c[j].completed = mutations[at + j][2].completed
       /\ c[j].ref = mutations[at + j][2].ref

\* C4: in a drain cycle only the last request can be in flight; every
\* request carries the chunk that follows the chunks already submitted with
\* success, so the request after a failed one repeats its chunk and the next
\* chunk goes out only after a success; the cycle ends only when every chunk
\* has been submitted with success.
C4_SequentialRetry ==
  /\ \A k \in 1..Len(requests) :
       /\ (requests[k].status = "inflight") => (k = Len(requests))
       /\ IsChunkAt(k, chunkSize * OkBefore(k))
       /\ (k < Len(requests) /\ requests[k].status = "failed")
            => requests[k + 1].chunk = requests[k].chunk
  /\ (pc = "post") <=>
       (requests # <<>> /\ requests[Len(requests)].status = "inflight")
  /\ CycleDone => OkBefore(Len(requests) + 1) = Ceil(Len(mutations))

\* the second chunk failed and was submitted again, while a newer edit of an
\* id of the drain was recorded
C4_Witness ==
  /\ Len(mutations) > chunkSize
  /\ Len(requests) >= 3
  /\ requests[1].status = "ok"
  /\ requests[2].status = "failed"
  /\ requests[3].status = "ok"
  /\ Len(recLog) > lastAt
  /\ recLog[Len(recLog)].id = mutations[1][1]

\* steps, told apart by what they change
LoopStep == pc' # pc \/ requests' # requests

DrainStep == pc = "raf" /\ pc' # "raf"

SnapshotStep ==
  /\ UNCHANGED <<bufferVars, loopVars, historyVars>>
  /\ sources[es].readyState = "OPEN"
  /\ data' = JSONparse(delivered'.payload)

\* C6: dirty turns true only in a drain of a non-empty buffer and every such
\* drain leaves it true; dirty and busy turn false only in the handling of a
\* snapshot message, and no step of the sync loop turns dirty false.
C6_DirtyOnlyClearedBySnapshot ==
  [][ /\ (~dirty /\ dirty') => (DrainStep /\ localMutations.keys # <<>>)
      /\ (DrainStep /\ localMutations.keys # <<>>) => dirty'
      /\ (dirty /\ ~dirty') => SnapshotStep
      /\ LoopStep => (dirty => dirty')
      /\ (busy /\ ~busy') => SnapshotStep ]_vars

\* the cycle ended after a failed and a successful submission, dirty is still
\* set
C6_Witness ==
  /\ dirty
  /\ pc \in {"pause", "raf"}
  /\ acked # {}
  /\ Failures >= 1

\* C8: a step that handles a snapshot message (it changes the list, clears a
\* flag or is the dispatch of another message) ends with the list equal to
\* the snapshot received, dirty and adding false, and with the buffer,
\* hasLocalMutations and the loop's chunk, requests and position as before.
C8_SnapshotAtomic ==
  [][ (\/ data' # data
       \/ delivered' # delivered
       \/ (dirty /\ ~dirty')
       \/ (adding /\ ~adding'))
      => /\ data' = JSONparse(delivered'.payload)
         /\ ~dirty'
         /\ ~adding'
         /\ UNCHANGED <<localMutations, hasLocalMutations, mutations, i,
                         chunk, requests, pc>> ]_vars

\* a snapshot was handled while edits were pending and a chunk was in flight
C8_Witness ==
  /\ delivered.src = 1
  /\ data = JSONparse(delivered.payload)
  /\ ~dirty
  /\ pc = "post"
  /\ hasLocalMutations
  /\ localMutations.keys # <<>>

\* C5: under the scheduling of SpecLive every recorded edit is eventually
\* replaced in the buffer by a later edit of its id or part of a submission
\* that succeeded.
C5_EveryEditSubmitted ==
  \A r \in 1..MaxRecords :
    (Len(recLog) >= r) ~> (r \in acked \/ r \in overwritten)

\* an edit recorded while a chunk was being retried went out with the next
\* drain
C5_Witness ==
  /\ Len(recLog) = 2
  /\ acked = {1, 2}
  /\ prevAt = 1
  /\ lastAt = 2
  /\ Failures >= 1

\* C7: after a single add whose submission has failed, busy stays true until
\* the edit is part of a submission that succeeded.
C7_BusyUntilSubmitted ==
  (/\ Len(recLog) = 1
   /\ recLog[1].id > GenBase
   /\ Failures >= 1
   /\ 1 \notin acked) => busy

\* C9: every error event on the channel leaves a reconnection scheduled or
\* under way.
C9_ReconnectAfterEveryError ==
  [][ (errors' > errors) =>
        (reconnecting' \/ sources'[es'].readyState = "CONNECTING") ]_vars

\* C10: every message dispatched on the current subscription replaces the
\* list by its snapshot and clears dirty and adding.
C10_EveryMessageApplied ==
  [][ (delivered' # delivered /\ delivered'.src = es) =>
        (/\ data' = JSONparse(delivered'.payload)
         /\ ~dirty'
         /\ ~adding') ]_vars

\* C11: every error event leaves the current connection closed; a handler
\* that waits has a delay of at least 10000 and less than 15000 ms; a new
\* subscription is created only when that delay has elapsed; at most one
\* subscription is connecting or open.
C11_ClosedDelayedSingle ==
  [][ /\ (errors' > errors) => sources'[es'].readyState = "CLOSED"
      /\ reconnecting' => (backoff' >= 10000 /\ backoff' < 15000)
      /\ (Len(sources') > Len(sources)) =>
           (waited >= backoff /\ backoff >= 10000)
      /\ Cardinality({s \in 1..Len(sources') :
                        sources'[s].readyState # "CLOSED"}) <= 1 ]_vars

\* record r was made by addTodo
IsAdd(r) == recLog[r].id > GenBase

\* the id of the last record call
LastId == recLog[Len(recLog)].id

\* s has a pair for the id of record r with the text of r and completed false
HoldsAdd(s, r) ==
  \E k \in 1..Len(s) :
    /\ s[k][1] = recLog[r].id
    /\ s[k][2].text = recLog[r].text
    /\ s[k][2].completed = FALSE

\* C12: two adds have distinct ids and a text the user entered; with no drain
\* since the first of them the buffer holds an entry for each (two entries
\* when they are the only records), and a drain that follows both returns
\* both.
C12_TwoAddsTwoEntries ==
  \A r1, r2 \in 1..Len(recLog) :
    (r1 < r2 /\ IsAdd(r1) /\ IsAdd(r2)) =>
      /\ recLog[r1].id # recLog[r2].id
      /\ recLog[r1].text \in Texts /\ recLog[r2].text \in Texts
      /\ (lastAt < r1) =>
           /\ HoldsAdd(ArrayFrom(localMutations), r1)
           /\ HoldsAdd(ArrayFrom(localMutations), r2)
           /\ (Len(recLog) = 2) => Len(localMutations.keys) = 2
      /\ (prevAt < r1 /\ r2 <= lastAt) =>
           /\ HoldsAdd(mutations, r1)
           /\ HoldsAdd(mutations, r2)

\* two adds were made with no drain in between and the next drain returned
\* them
C12_Witness ==
  /\ Len(recLog) = 2
  /\ IsAdd(1) /\ IsAdd(2)
  /\ prevAt = 0
  /\ lastAt = 2
  /\ Len(mutations) = 2
  /\ mutations[1][1] # mutations[2][1]

\* C13: an add is accepted only while adding is false and sets it; adding
\* turns true only in an add and turns false only in the handling of a
\* snapshot message, so no add is recorded between an add and the next
\* snapshot.
C13_AddingGuardsAdd ==
  [][ /\ (ids' # ids) => (~adding /\ adding' /\ LastId' > GenBase)
      /\ (~adding /\ adding') => (ids' = ids + 1 /\ Len(recLog') = Len(recLog) + 1)
      /\ (adding /\ ~adding') => SnapshotStep
      /\ (adding /\ recLog' # recLog) => LastId' <= GenBase ]_vars

\* an added item was submitted with success and adding is still set, and
\* the second record is an edit of a row, not an add
C13_Witness ==
  /\ adding
  /\ Len(recLog) = 2
  /\ IsAdd(1)
  /\ ~IsAdd(2)
  /\ 1 \in acked

\* the positions of the rows of item id in the list
RowsOf(items, id) == {k \in 1..Len(items) : items[k].id = id}

\* C14: an edit of a row is recorded only while the row is not locked, locks
\* that row and changes the state of no other row; a locked row stays locked
\* as long as a row with its key is displayed, so it accepts no edit until a
\* snapshot replaces it.
C14_RowLock ==
  [][ /\ (recLog' # recLog /\ LastId' <= GenBase) =>
           \E k \in RowsOf(data.items, LastId') :
             /\ ~rows[k].busy
             /\ rows'[k].busy
             /\ \A j \in 1..Len(rows) : j # k => rows'[j] = rows[j]
      /\ \A k \in 1..Len(rows), j \in 1..Len(rows') :
           (Key(data.items[k]) = Key(data'.items[j]) /\ rows[k].busy)
             => rows'[j].busy
      /\ (\E k \in 1..Len(rows) : rows[k].busy /\
             \A j \in 1..Len(rows') : Key(data'.items[j]) # Key(data.items[k]))
           => SnapshotStep ]_vars

\* row 1 was locked by an edit and row 2 accepted an edit after it
C14_Witness ==
  /\ Len(rows) = 2
  /\ Len(recLog) = 2
  /\ recLog[1].id = data.items[1].id
  /\ recLog[2].id = data.items[2].id
  /\ rows[1].busy
  /\ rows[2].busy

\* the buffer's pairs for item id
EntriesOf(m, id) == {k \in 1..Len(m.keys) : m.keys[k] = id}

\* the step is doDelete's record for an item whose pending edit has
\* completed = true and is not itself a delete
DeleteOverCompleted ==
  /\ Len(recLog') = Len(recLog) + 1
  /\ recLog'[Len(recLog')].text = Null
  /\ LastId' \in Range(localMutations.keys)
  /\ localMutations.vals[LastId'].completed
  /\ localMutations.vals[LastId'].text # Null

\* C15 as stated: after a delete of an item whose pending edit had
\* completed = true the buffer's one edit for the item is
\* {text: null, completed: true}.
C15_DeleteKeepsCompletedTrue ==
  [][ DeleteOverCompleted =>
        /\ Cardinality(EntriesOf(localMutations', LastId')) = 1
        /\ localMutations'.vals[LastId'].text = Null
        /\ localMutations'.vals[LastId'].completed = TRUE ]_vars

\* C15 amended: after such a delete the buffer's one edit for the item has
\* text null and the completed value of the item's displayed row, which is
\* true exactly when the row shows the item as completed.
C15_DeleteTakesDisplayedCompleted ==
  [][ DeleteOverCompleted =>
        /\ Cardinality(EntriesOf(localMutations', LastId')) = 1
        /\ localMutations'.vals[LastId'].text = Null
        /\ \E k \in RowsOf(data.items, LastId') :
             localMutations'.vals[LastId'].completed = data.items[k].completed
        /\ localMutations'.vals[LastId'].ref = Len(recLog') ]_vars

\* an item with a pending edit of completed = true was deleted before a drain
C15_Witness ==
  /\ Len(recLog) = 2
  /\ overwritten = {1}
  /\ recLog[1].id = recLog[2].id
  /\ recLog[1].completed
  /\ recLog[1].text # Null
  /\ recLog[2].text = Null
  /\ localMutations.keys = <<recLog[2].id>>

\* C16: the displayed list changes only in the handling of a snapshot
\* message, and then it becomes exactly the list of that message, whatever
\* was displayed before; once a message was handled the list equals the
\* last one handled; a record, a drain, a submission, its result and a retry
\* leave the list as it is.
C16_ListOnlyReplacedBySnapshot ==
  [][ /\ (data' # data) => /\ delivered'.src = es
                           /\ sources[es].readyState = "OPEN"
                           /\ data' = JSONparse(delivered'.payload)
      /\ (delivered'.src # 0) => data' = JSONparse(delivered'.payload)
      /\ (recLog' # recLog \/ LoopStep) => data' = data ]_vars

\* a chunk was reported as failed and submitted again with success, and the
\* list shown is the two items of the last snapshot
C16_Witness ==
  /\ Len(requests) = 2
  /\ requests[1].status = "failed"
  /\ requests[2].status = "ok"
  /\ requests[1].chunk = requests[2].chunk
  /\ delivered.src = 1
  /\ data = JSONparse(delivered.payload)
  /\ Len(data.items) = 2

\* a step in which the loop calls axios.post
IssueStep ==
  /\ requests' # requests
  /\ Len(requests') > 0
  /\ requests'[Len(requests')].status = "inflight"

\* C17: while the page is hidden the sync loop starts no drain and issues no
\* submission, neither a first attempt nor a retry.
C17_NoWorkWhileHidden ==
  [][ ~visible => (~DrainStep /\ ~IssueStep) ]_vars

\* C18: whenever busy is false the mutation buffer is empty and every edit
\* the loop drained has been part of a submission that succeeded.
C18_IdleMeansAllSubmitted ==
  ~busy => (localMutations.keys = <<>> /\ Refs(mutations) \subseteq acked)

\* the recorded edit r is the most recent one of its id
LastOfId(r) == \A q \in (r + 1)..Len(recLog) : recLog[q].id # recLog[r].id

\* the loop is between two cycles and nothing is buffered
Idle == pc \in {"pause", "raf"} /\ localMutations.keys = <<>>

IdleAllLatestSubmitted ==
  Idle => \A r \in 1..Len(recLog) : LastOfId(r) => r \in acked

\* C19: an edit that a successful submission carries was recorded after
\* every edit of the same id that an earlier successful submission carried;
\* once the buffer is empty and the loop is between two cycles, the most
\* recently recorded edit of every id has been submitted with success.
C19_PerIdOrder ==
  [][ /\ \A r \in acked' \ acked : \A q \in acked :
           (recLog[q].id = recLog[r].id) => q < r
      /\ IdleAllLatestSubmitted' ]_vars

\* two edits of one id went out in two cycles, the second after a rejected
\* submission
C19_Witness ==
  /\ Len(recLog) = 2
  /\ recLog[1].id = recLog[2].id
  /\ acked = {1, 2}
  /\ Failures >= 1
  /\ Idle

\* C20: after every step hasLocalMutations is true exactly when the buffer
\* is non-empty: a record leaves the flag true, a drain leaves the buffer
\* empty and the flag false, and every other step leaves both as they are.
C20_FlagMirrorsBuffer ==
  [][ /\ hasLocalMutations' <=> (localMutations'.keys # <<>>)
      /\ (recLog' # recLog) => hasLocalMutations'
      /\ DrainStep => (localMutations' = NewMap /\ ~hasLocalMutations')
      /\ (recLog' = recLog /\ ~DrainStep)
           => UNCHANGED <<localMutations, hasLocalMutations>> ]_vars

\* an edit recorded after a drain waits in the buffer while the drained
\* chunk is retried and a snapshot has been handled
C20_Witness ==
  /\ hasLocalMutations
  /\ localMutations.keys # <<>>
  /\ lastAt >= 1
  /\ Len(recLog) > lastAt
  /\ pc = "retryWait"
  /\ delivered.src = 1

====
